---- MODULE Spec2Model ----
(***************************************************************************)
(* SQL-assist: a Streamlit chat front end that turns an English request    *)
(* into SQL with a hosted language model and runs it on a SQLite file.     *)
(* Three scripts share the pipeline: main.py (direct generation),          *)
(* NewMain.py (read-only agent) and NewMain2.py (agent plus a confirmation *)
(* flow for destructive requests).  One behaviour of this module is one    *)
(* Streamlit session of one of the three scripts: every action is one run  *)
(* of the script from top to bottom, triggered by a sidebar widget change  *)
(* or by a submitted chat message.                                         *)
(*                                                                         *)
(* Text is modelled as sequences of one-character strings so that the      *)
(* string tests of the code (lower, startswith, in, slicing, split) are    *)
(* computed and not assumed.                                               *)
(***************************************************************************)
EXTENDS Integers, Sequences, FiniteSets, TLC

(***************************************************************************)
(* Bounds of the model.                                                    *)
(***************************************************************************)
MaxTurns == 2

(***************************************************************************)
(* Python string operations.                                               *)
(***************************************************************************)
UpperLetters ==
  <<"A","B","C","D","E","F","G","H","I","J","K","L","M",
    "N","O","P","Q","R","S","T","U","V","W","X","Y","Z">>
LowerLetters ==
  <<"a","b","c","d","e","f","g","h","i","j","k","l","m",
    "n","o","p","q","r","s","t","u","v","w","x","y","z">>
Whitespace == {" ", "\n", "\t"}

lower_char(c) ==
  IF \E k \in 1..26 : UpperLetters[k] = c
  THEN LowerLetters[CHOOSE k \in 1..26 : UpperLetters[k] = c]
  ELSE c
upper_char(c) ==
  IF \E k \in 1..26 : LowerLetters[k] = c
  THEN UpperLetters[CHOOSE k \in 1..26 : LowerLetters[k] = c]
  ELSE c
lower(s) == [i \in 1..Len(s) |-> lower_char(s[i])]
upper(s) == [i \in 1..Len(s) |-> upper_char(s[i])]

\* s.startswith(p)
startswith(s, p) == Len(s) >= Len(p) /\ SubSeq(s, 1, Len(p)) = p
\* s[n:]
slice_from(s, n) == SubSeq(s, n + 1, Len(s))
\* the positions at which w occurs in s
occurrences(s, w) ==
  {i \in 1..(Len(s) - Len(w) + 1) : SubSeq(s, i, i + Len(w) - 1) = w}
\* w in s
contains(s, w) == occurrences(s, w) # {}
first_occurrence(s, w) ==
  CHOOSE i \in occurrences(s, w) : \A j \in occurrences(s, w) : i <= j

RECURSIVE lstrip(_)
lstrip(s) ==
  IF s # <<>> /\ Head(s) \in Whitespace THEN lstrip(Tail(s)) ELSE s
RECURSIVE rstrip(_)
rstrip(s) ==
  IF s # <<>> /\ s[Len(s)] \in Whitespace
  THEN rstrip(SubSeq(s, 1, Len(s) - 1)) ELSE s
\* s.strip()
strip(s) == rstrip(lstrip(s))

\* s.split(sep): the parts of s between the occurrences of sep
RECURSIVE split(_, _)
split(s, sep) ==
  IF ~contains(s, sep) THEN <<s>>
  ELSE LET i == first_occurrence(s, sep)
       IN  <<SubSeq(s, 1, i - 1)>> \o split(slice_from(s, i + Len(sep) - 1), sep)

\* the first whitespace-delimited token of s, <<>> when there is none
RECURSIVE first_token(_)
first_token(s) ==
  LET t == lstrip(s)
  IN  IF t = <<>> \/ Head(t) \in Whitespace THEN <<>>
      ELSE IF Len(t) = 1 \/ t[2] \in Whitespace THEN <<Head(t)>>
      ELSE <<Head(t)>> \o first_token(Tail(t))
\* s.split(): the whitespace-delimited tokens of s
RECURSIVE split_whitespace(_)
split_whitespace(s) ==
  LET t == lstrip(s)
  IN  IF t = <<>> THEN <<>>
      ELSE LET tok == first_token(t)
           IN  <<tok>> \o split_whitespace(slice_from(t, Len(tok)))

(***************************************************************************)
(* The texts of the model: the words the code tests for, the user messages *)
(* typed into the chat input and the statements the language model         *)
(* returns.                                                                *)
(***************************************************************************)
\* "YES"
YES ==
  <<"Y","E","S">>
\* "delete"
W_delete ==
  <<"d","e","l","e","t","e">>
\* "drop"
W_drop ==
  <<"d","r","o","p">>
\* "truncate"
W_truncate ==
  <<"t","r","u","n","c","a","t","e">>
\* "update"
W_update ==
  <<"u","p","d","a","t","e">>
\* "insert"
W_insert ==
  <<"i","n","s","e","r","t">>
\* "select"
K_select ==
  <<"s","e","l","e","c","t">>
\* "pragma"
K_pragma ==
  <<"p","r","a","g","m","a">>
\* "explain"
K_explain ==
  <<"e","x","p","l","a","i","n">>
\* "into "
K_into ==
  <<"i","n","t","o"," ">>
\* "update "
K_update ==
  <<"u","p","d","a","t","e"," ">>
\* "from "
K_from ==
  <<"f","r","o","m"," ">>
\* "employees"
T_employees ==
  <<"e","m","p","l","o","y","e","e","s">>
\* "show all employees"
MsgShow ==
  <<"s","h","o","w"," ","a","l","l"," ","e","m","p","l","o","y","e","e","s">>
\* "Delete employee 1"
MsgDelete ==
  <<"D","e","l","e","t","e"," ","e","m","p","l","o","y","e","e"," ","1">>
\* "YES delete employee 1"
MsgYesDelete ==
  <<"Y","E","S"," ","d","e","l","e","t","e"," ","e","m","p","l","o","y","e","e"," ","1">>
\* "yesDelete employee 1"
MsgYesNoSpace ==
  <<"y","e","s","D","e","l","e","t","e"," ","e","m","p","l","o","y","e","e"," ","1">>
\* " SELECT * FROM employees"
SqlSelect ==
  <<" ","S","E","L","E","C","T"," ","*"," ","F","R","O","M"," ","e","m","p","l","o","y","e","e","s">>
\* "DELETE FROM employees WHERE id = 1"
SqlDelete ==
  <<"D","E","L","E","T","E"," ","F","R","O","M"," ","e","m","p","l","o","y","e","e","s"," ","W","H","E","R","E"," ","i","d"," ","="," ","1">>
\* "UPDATE employees SET name = 'into into ' WHERE id = 1"
SqlUpdate ==
  <<"U","P","D","A","T","E"," ","e","m","p","l","o","y","e","e","s"," ","S","E","T"," ","n","a","m","e"," ","="," ","'","i","n","t","o"," ","i","n","t","o"," ","'"," ","W","H","E","R","E"," ","i","d"," ","="," ","1">>
\* "INSERT OR FAIL INTO employees(id) VALUES (5), (1)"
SqlInsertOrFail ==
  <<"I","N","S","E","R","T"," ","O","R"," ","F","A","I","L"," ","I","N","T","O"," ","e","m","p","l","o","y","e","e","s","(","i","d",")"," ","V","A","L","U","E","S"," ","(","5",")",","," ","(","1",")">>
\* "UPDATE employees SET name = 'from x' WHERE id = 1"
SqlUpdateFrom ==
  <<"U","P","D","A","T","E"," ","e","m","p","l","o","y","e","e","s"," ","S","E","T"," ","n","a","m","e"," ","="," ","'","f","r","o","m"," ","x","'"," ","W","H","E","R","E"," ","i","d"," ","="," ","1">>
\* "INSERT INTO employees SELECT * FROM employees WHERE id > 9"
SqlInsertSelect ==
  <<"I","N","S","E","R","T"," ","I","N","T","O"," ","e","m","p","l","o","y","e","e","s"," ","S","E","L","E","C","T"," ","*"," ","F","R","O","M"," ","e","m","p","l","o","y","e","e","s"," ","W","H","E","R","E"," ","i","d"," ",">"," ","9">>
\* "CREATE TABLE IF NOT EXISTS employees (id INTEGER)"
SqlCreate ==
  <<"C","R","E","A","T","E"," ","T","A","B","L","E"," ","I","F"," ","N","O","T"," ","E","X","I","S","T","S"," ","e","m","p","l","o","y","e","e","s"," ","(","i","d"," ","I","N","T","E","G","E","R",")">>

\* is_destructive_query: the words that mark a request as destructive
danger_words == {W_delete, W_drop, W_truncate, W_update, W_insert}
\* the leading keywords main.py treats as result-returning
read_keywords == {K_select, K_pragma, K_explain}

\* what is typed into st.chat_input
UserMessages == {MsgShow, MsgDelete, MsgYesDelete, MsgYesNoSpace}

(***************************************************************************)
(* The language model is an external service: for any prompt it may return *)
(* any statement, or the call may raise.  A statement is its text, which   *)
(* the code inspects, and op, what SQLite does when the text is executed.  *)
(***************************************************************************)
Statements ==
  { [text |-> SqlSelect,       op |-> "select"],
    [text |-> SqlDelete,       op |-> "delete"],
    [text |-> SqlUpdate,       op |-> "update"],
    [text |-> SqlInsertOrFail, op |-> "insert_or_fail"] }
LlmError == [text |-> <<>>, op |-> "llm_error"]
LlmOutcomes == Statements \cup {LlmError}

\* further statements the model may return in main.py, for what the
\* affected-table detection makes of them: "update " before "from ", both
\* "into " and "from ", and none of the three keywords
TableStatements ==
  { [text |-> SqlUpdateFrom,   op |-> "update"],
    [text |-> SqlInsertSelect, op |-> "insert_none"],
    [text |-> SqlCreate,       op |-> "create"] }
\* the statements main.py does not take for a read
WriteStatements ==
  {s \in Statements : s.op # "select"} \cup TableStatements

(***************************************************************************)
(* The database.  A table is a set of rows <<id, content>>; content is     *)
(* "sample" for a row as seeded and "new" for a row written by a turn.     *)
(***************************************************************************)
sample_data == {<<1, "sample">>, <<2, "sample">>, <<3, "sample">>, <<4, "sample">>}
has_id(t, i) == \E r \in t : r[1] = i

\* the employees table a database file may hold before the session starts
InitialTables == { {}, {<<2, "sample">>, <<7, "new">>} }

\* what is typed into the "Database Name" input: the default is kept
Paths == {"my_database.db"}
ApiKeys == {"", "gsk"}
Variants == {"main", "NewMain", "NewMain2"}

\* cursor.execute(stmt.text) on a connection that sees table t: whether it
\* raises, the table the connection sees afterwards, and whether sqlite3
\* opened a transaction for it (it does before INSERT, UPDATE and DELETE,
\* once the statement has compiled)
cursor_execute(stmt, t) ==
  CASE stmt.op = "select" ->
         [raised |-> FALSE, table |-> t, begun |-> FALSE]
    [] stmt.op = "delete" ->
         [raised |-> FALSE, table |-> {r \in t : r[1] # 1}, begun |-> TRUE]
    [] stmt.op = "update" ->
         [raised |-> FALSE,
          table |-> {IF r[1] = 1 THEN <<1, "new">> ELSE r : r \in t},
          begun |-> TRUE]
    [] stmt.op = "insert_or_fail" ->
         \* OR FAIL keeps the rows written before the failing one
         IF has_id(t, 5)
         THEN [raised |-> TRUE, table |-> t, begun |-> TRUE]
         ELSE IF has_id(t, 1)
         THEN [raised |-> TRUE, table |-> t \cup {<<5, "new">>}, begun |-> TRUE]
         ELSE [raised |-> FALSE,
               table |-> t \cup {<<5, "new">>, <<1, "new">>}, begun |-> TRUE]
    [] stmt.op = "insert_none" ->
         \* INSERT ... SELECT whose SELECT finds no row
         [raised |-> FALSE, table |-> t, begun |-> TRUE]
    [] stmt.op = "create" ->
         \* CREATE TABLE IF NOT EXISTS of the table that exists; sqlite3
         \* opens no transaction before a CREATE
         [raised |-> FALSE, table |-> t, begun |-> FALSE]
    [] OTHER ->
         [raised |-> TRUE, table |-> t, begun |-> FALSE]

(***************************************************************************)
(* State.                                                                  *)
(***************************************************************************)
VARIABLES
  variant,           \* which of the three scripts the session runs
  env_key,           \* os.getenv("GROQ_API_KEY")
  key_input,         \* the sidebar's "Groq API Key" text input
  db_name,           \* the sidebar's "Database Name" text input
  init_sample_data,  \* the sidebar's "Initialize with sample data" checkbox
  messages,          \* st.session_state.messages
  conns,             \* st.cache_resource: the connection cached per key
  file,              \* the committed employees table of each database file
  connects,          \* how many times sqlite3.connect opened each path
  chat_shown,        \* whether the last run reached st.chat_input
  turns,             \* completed chat turns
  run                \* what the last run of the script did

vars == <<variant, env_key, key_input, db_name, init_sample_data, messages,
          conns, file, connects, chat_shown, turns, run>>

CacheKeys == Paths \X BOOLEAN
NoConn == [open |-> FALSE, in_txn |-> FALSE, view |-> {}]
NewConn == [open |-> TRUE, in_txn |-> FALSE, view |-> {}]

\* a run of the script that processed no chat turn
NoTurn ==
  [outcome |-> "ok", turn |-> FALSE, user_query |-> <<>>,
   modification |-> FALSE, schema_failed |-> FALSE, fallback |-> FALSE,
   prompt_built |-> FALSE, request |-> <<>>, llm_calls |-> 0,
   executed |-> FALSE, sql_query |-> <<>>, exec_raised |-> FALSE,
   commits |-> 0, rollbacks |-> 0, table_warning |-> FALSE,
   table_name |-> <<>>, stmt_committed |-> FALSE]

Init ==
  /\ variant \in Variants
  /\ env_key \in ApiKeys
  /\ key_input = ""
  /\ db_name = "my_database.db"
  /\ init_sample_data = TRUE
  /\ messages = <<>>
  /\ conns = [k \in CacheKeys |-> NoConn]
  /\ file \in [Paths -> InitialTables]
  /\ connects = [p \in Paths |-> 0]
  /\ chat_shown = FALSE
  /\ turns = 0
  /\ run = NoTurn

(***************************************************************************)
(* The sqlite3 connection: a transaction stays open, with the table as the *)
(* connection sees it, until commit or rollback.                           *)
(***************************************************************************)
\* the table a statement on connection c reads, t being the committed file
conn_view(c, t) == IF c.in_txn THEN c.view ELSE t
\* the connection after cursor.execute returned or raised with result r
after_execute(c, r) ==
  IF r.begun \/ c.in_txn
  THEN [open |-> TRUE, in_txn |-> TRUE, view |-> r.table]
  ELSE c
\* conn.commit()
conn_commit(c, t) ==
  [conn |-> [c EXCEPT !.in_txn = FALSE, !.view = {}], file |-> conn_view(c, t)]
\* conn.rollback()
conn_rollback(c) == [c EXCEPT !.in_txn = FALSE, !.view = {}]

(***************************************************************************)
(* Database creation and the cached connection factory.                    *)
(***************************************************************************)
\* seeding as NewMain.py does it, put in the place of main.py's
init_sample_db_resets(t) == sample_data
\* main.py: seeds only an empty table
init_sample_db(t) == IF Cardinality(t) = 0 THEN sample_data ELSE t
\* seeding without its DELETE FROM employees
init_sample_db_with_no_delete(t, include_sample_data) ==
  IF include_sample_data THEN t \cup sample_data ELSE t
\* NewMain.py, NewMain2.py: clears the table and seeds it when asked to
init_sample_db_with(t, include_sample_data) ==
  IF include_sample_data THEN sample_data ELSE t

\* the arguments st.cache_resource keys the connection on: db_path in
\* main.py, (db_path, init_with_sample) in NewMain.py and NewMain2.py
cache_key(db_path, init_with_sample) ==
  IF variant = "main" THEN <<db_path, TRUE>> ELSE <<db_path, init_with_sample>>

\* get_database_connection / get_sqlite_database: the cached connection, or
\* a new one from init_sample_db when the key has not been seen
get_sqlite_database(db_path, init_with_sample) ==
  IF conns[cache_key(db_path, init_with_sample)].open
  THEN [conns |-> conns, file |-> file, connects |-> connects]
  ELSE [conns |-> [conns EXCEPT ![cache_key(db_path, init_with_sample)] = NewConn],
        file |-> [file EXCEPT ![db_path] =
                    IF variant = "main" THEN init_sample_db(@)
                    ELSE init_sample_db_with(@, init_with_sample)],
        connects |-> [connects EXCEPT ![db_path] = @ + 1]]

\* groq_api_key = os.getenv("GROQ_API_KEY") or st.text_input(...)
groq_api_key(typed) == IF env_key # "" THEN env_key ELSE typed
\* the credential check left out
api_key_missing_never(key) == FALSE
\* not groq_api_key
api_key_missing(key) == key = ""
\* init_groq_llm raises ValueError without a key
init_groq_llm_raises(key) == key = ""

(***************************************************************************)
(* Conversation entries.  The content of an entry is a format with its     *)
(* argument; error texts are one-element sequences.                        *)
(***************************************************************************)
user_entry(text) ==
  [role |-> "user", content |-> [fmt |-> "{}", arg |-> text]]
assistant_entry(fmt, arg) ==
  [role |-> "assistant", content |-> [fmt |-> fmt, arg |-> arg]]
RefusalMessage ==
  [fmt |-> "Please confirm destructive operation by starting query with 'YES'",
   arg |-> <<>>]
SchemaError == <<"sqlite3.OperationalError">>
ModelError == <<"model call failed">>
ExecutionError == <<"sqlite3.Error">>

(***************************************************************************)
(* main.py: the chat turn.                                                 *)
(***************************************************************************)
\* sql_query.strip().lower().startswith(("select", "pragma", "explain"))
is_read_statement(sql_query) ==
  \E k \in read_keywords : startswith(lower(strip(sql_query)), k)

\* parts = sql_query.lower().split(keyword); parts[1].split()[0].strip()
token_after(sql_query, keyword) ==
  LET parts == split(lower(sql_query), keyword)
      tokens == split_whitespace(parts[2])
  IN  IF tokens = <<>>
      THEN [raised |-> TRUE, table_name |-> <<>>]    \* IndexError
      ELSE [raised |-> FALSE, table_name |-> strip(tokens[1])]

\* the detection with "from " looked for first
affected_table_from_first(sql_query) ==
  IF contains(lower(sql_query), K_from) THEN token_after(sql_query, K_from)
  ELSE IF contains(lower(sql_query), K_into) THEN token_after(sql_query, K_into)
  ELSE IF contains(lower(sql_query), K_update) THEN token_after(sql_query, K_update)
  ELSE [raised |-> FALSE, table_name |-> T_employees]
\* the table whose contents are shown after a write
affected_table(sql_query) ==
  IF contains(lower(sql_query), K_into) THEN token_after(sql_query, K_into)
  ELSE IF contains(lower(sql_query), K_update) THEN token_after(sql_query, K_update)
  ELSE IF contains(lower(sql_query), K_from) THEN token_after(sql_query, K_from)
  ELSE [raised |-> FALSE, table_name |-> T_employees]

\* cursor.execute(f"SELECT * FROM {table_name}") raises unless table_name
\* names the one table of the database
select_all_raises(table_name) == table_name # T_employees

\* the "Current table state" block without its try/except
show_table_state_unguarded(sql_query) ==
  LET a == affected_table(sql_query)
      failed == a.raised \/ select_all_raises(a.table_name)
  IN  [escaped |-> failed, warning |-> FALSE, table_name |-> a.table_name]
\* the "Current table state" block: escaped is whether an exception leaves
\* the block, warning whether st.warning reported one
show_table_state(sql_query) ==
  LET a == affected_table(sql_query)
      failed == a.raised \/ select_all_raises(a.table_name)
  IN  [escaped |-> FALSE, warning |-> failed, table_name |-> a.table_name]

\* what the turn computes from the text of each statement, tabulated
StatementFacts ==
  [s \in Statements \cup TableStatements |->
     [sql_query |-> strip(s.text),
      read |-> is_read_statement(strip(s.text)),
      shown |-> show_table_state(strip(s.text))]]

\* what a turn leaves: the connection, the committed table, the entries it
\* appended to the log and the record of what it did
turn_result(c, t, entries, did) ==
  [conn |-> c, file |-> t, entries |-> entries, run |-> did]

\* the record of a turn once the model has been called with request
model_called(did, request) ==
  [did EXCEPT !.prompt_built = TRUE, !.request = request, !.llm_calls = 1]
\* the record of a turn once cursor.execute has returned or raised with r
statement_executed(did, sql_query, r) ==
  [did EXCEPT !.executed = TRUE, !.sql_query = sql_query,
              !.exec_raised = r.raised]
\* the record of a turn once conn.commit() has returned
statement_committed(did) ==
  [did EXCEPT !.commits = 1, !.stmt_committed = TRUE]

main_success_entry(sql_query) ==
  assistant_entry("Generated SQL: {} Query executed successfully.", sql_query)
main_error_entry(error) ==
  assistant_entry("Error executing query: Error: {}", error)

\* conn.commit(), then the "Current table state" block and the entry
main_written(done, prompt, sql_query, shown, did) ==
  turn_result(done.conn, done.file,
              <<user_entry(prompt),
                IF shown.escaped THEN main_error_entry(ExecutionError)
                ELSE main_success_entry(sql_query)>>,
              [statement_committed(did) EXCEPT
                 !.table_warning = shown.warning,
                 !.table_name = shown.table_name])

\* the statement is executed, c1 being the connection afterwards
main_executed(c1, t, prompt, facts, r, did) ==
  IF facts.read
  THEN turn_result(c1, t,
                   <<user_entry(prompt),
                     IF r.raised THEN main_error_entry(ExecutionError)
                     ELSE main_success_entry(facts.sql_query)>>,
                   did)
  ELSE IF r.raised
  THEN turn_result(c1, t,
                   <<user_entry(prompt), main_error_entry(ExecutionError)>>, did)
  ELSE main_written(conn_commit(c1, t), prompt, facts.sql_query, facts.shown, did)

\* the model has answered with the statement llm, which execute answers by r
main_generated(c, t, prompt, facts, r, did) ==
  main_executed(after_execute(c, r), t, prompt, facts, r,
                statement_executed(did, facts.sql_query, r))

\* the turn of main.py, the record did holding how the schema was fetched
main_called(c, t, prompt, llm, did) ==
  IF llm.op = "llm_error"
  THEN turn_result(c, t, <<user_entry(prompt), main_error_entry(ModelError)>>, did)
  ELSE main_generated(c, t, prompt, StatementFacts[llm],
                      cursor_execute(llm, conn_view(c, t)), did)

main_turn(c, t, prompt, llm, schema_failed) ==
  main_called(c, t, prompt, llm,
              model_called([NoTurn EXCEPT !.turn = TRUE, !.user_query = prompt,
                                          !.schema_failed = schema_failed,
                                          !.fallback = schema_failed],
                           prompt))

(***************************************************************************)
(* NewMain.py and NewMain2.py: the agent, and NewMain2.py's confirmation   *)
(* flow.                                                                   *)
(***************************************************************************)
\* is_destructive_query with the .lower() forgotten
is_destructive_query_case_sensitive(query) ==
  \E word \in danger_words : contains(query, word)
\* any(word in query.lower() for word in danger_words)
is_destructive_query(query) ==
  \E word \in danger_words : contains(lower(query), word)
\* user_query.upper().startswith("YES")
is_confirmed(user_query) == startswith(upper(user_query), YES)
\* user_query[4:]
remove_yes_prefix(user_query) == slice_from(user_query, 4)

\* what the turn computes from the text of each message, tabulated
MessageFacts ==
  [m \in UserMessages |->
     [destructive |-> is_destructive_query(m),
      confirmed |-> is_confirmed(m),
      request |-> remove_yes_prefix(m)]]

\* what a call made by the turn leaves: whether it raised, its response or
\* the text of its exception, the connection and the committed table
call_result(raised, response, c, t, did) ==
  [raised |-> raised, response |-> response, conn |-> c, file |-> t,
   run |-> did]

AgentAnswer == [fmt |-> "agent answer", arg |-> <<>>]

\* SQLDatabase runs the statement: it commits it, or rolls it back and
\* hands the error to the agent, which answers either way
agent_executed(c1, t, r, did) ==
  IF r.raised
  THEN call_result(FALSE, AgentAnswer, conn_rollback(c1), t,
                   [did EXCEPT !.rollbacks = 1])
  ELSE call_result(FALSE, AgentAnswer, conn_commit(c1, t).conn,
                   conn_commit(c1, t).file, statement_committed(did))

agent_generated(c, t, sql_query, r, did) ==
  agent_executed(after_execute(c, r), t, r,
                 statement_executed(did, sql_query, r))

\* agent.run(user_query): the LangChain SQL agent is an external
\* collaborator; it calls the model and runs the statement it gets
\* unless the model call raises
agent_called(c, t, llm, did) ==
  IF llm.op = "llm_error"
  THEN call_result(TRUE, ModelError, c, t, did)
  ELSE agent_generated(c, t, StatementFacts[llm].sql_query,
                       cursor_execute(llm, conn_view(c, t)), did)

agent_run(c, t, user_query, llm) ==
  agent_called(c, t, llm,
               model_called([NoTurn EXCEPT !.turn = TRUE,
                                           !.user_query = user_query],
                            user_query))

\* execute_modification_query from cursor.execute on: commit and the
\* success text, or rollback and the exception
modification_executed(c1, t, sql_query, r, did) ==
  IF r.raised
  THEN call_result(TRUE, <<"SQL Execution Error: sqlite3.Error">>,
                   conn_rollback(c1), t, [did EXCEPT !.rollbacks = 1])
  ELSE call_result(FALSE,
                   [fmt |-> "Successfully executed: {}", arg |-> sql_query],
                   conn_commit(c1, t).conn, conn_commit(c1, t).file,
                   statement_committed(did))

modification_generated(c, t, sql_query, r, did) ==
  modification_executed(after_execute(c, r), t, sql_query, r,
                        statement_executed(did, sql_query, r))

\* execute_modification_query once the prompt is built: llm.invoke
modification_called(c, t, llm, did) ==
  IF llm.op = "llm_error"
  THEN call_result(TRUE, ModelError, c, t, did)
  ELSE modification_generated(c, t, StatementFacts[llm].sql_query,
                              cursor_execute(llm, conn_view(c, t)), did)

\* execute_modification_query(conn, llm, query_text): get_schema_info(conn)
\* is called inside the f-string, so its exception leaves the function
modification_entered(c, t, query_text, llm, schema_failed, did) ==
  IF schema_failed
  THEN call_result(TRUE, SchemaError, c, t, did)
  ELSE modification_called(c, t, llm, model_called(did, query_text))

execute_modification_query(c, t, query_text, llm, schema_failed) ==
  modification_entered(c, t, query_text, llm, schema_failed,
                       [NoTurn EXCEPT !.turn = TRUE, !.modification = TRUE,
                                      !.schema_failed = schema_failed])

\* the entries a turn of NewMain2.py appends for the result res of the call
\* it made: the response, or the error of the except branch
NewMain2_entries(user_query, res) ==
  IF res.raised
  THEN <<user_entry(user_query), assistant_entry("Error: {}", res.response)>>
  ELSE <<user_entry(user_query),
         [role |-> "assistant", content |-> res.response]>>

NewMain2_answered(user_query, res) ==
  turn_result(res.conn, res.file, NewMain2_entries(user_query, res),
              [res.run EXCEPT !.user_query = user_query])

NewMain2_classified(c, t, user_query, facts, llm, schema_failed) ==
  NewMain2_answered(
    user_query,
    IF facts.destructive
    THEN IF ~facts.confirmed
         THEN call_result(FALSE, RefusalMessage, c, t,
                          [NoTurn EXCEPT !.turn = TRUE])
         ELSE execute_modification_query(c, t, facts.request, llm, schema_failed)
    ELSE agent_run(c, t, user_query, llm))

NewMain2_turn(c, t, user_query, llm, schema_failed) ==
  NewMain2_classified(c, t, user_query, MessageFacts[user_query], llm,
                      schema_failed)

\* NewMain.py's turn with the append of the except branch forgotten
NewMain_entries_no_error_entry(user_query, res) ==
  IF res.raised
  THEN <<user_entry(user_query)>>
  ELSE <<user_entry(user_query),
         [role |-> "assistant", content |-> res.response]>>
\* the entries a turn of NewMain.py appends
NewMain_entries(user_query, res) ==
  IF res.raised
  THEN <<user_entry(user_query), assistant_entry("Error: Error: {}", res.response)>>
  ELSE <<user_entry(user_query),
         [role |-> "assistant", content |-> res.response]>>

NewMain_answered(user_query, res) ==
  turn_result(res.conn, res.file, NewMain_entries(user_query, res), res.run)

NewMain_turn(c, t, user_query, llm) ==
  NewMain_answered(user_query, agent_run(c, t, user_query, llm))

(***************************************************************************)
(* One run of the script, top to bottom, with the sidebar holding typed,   *)
(* db and sample.  submitted says whether st.chat_input returned prompt;   *)
(* llm is what the model call of the run returns and schema_failed whether *)
(* the catalog query of get_schema_info raises in this run.                *)
(***************************************************************************)
\* the run ends without reaching st.chat_input
RunEnds(got, outcome) ==
  /\ conns' = got.conns
  /\ file' = got.file
  /\ connects' = got.connects
  /\ messages' = messages
  /\ turns' = turns
  /\ chat_shown' = FALSE
  /\ run' = [NoTurn EXCEPT !.outcome = outcome]

\* the run reaches st.chat_input and nothing was submitted
RunIdles(got, schema_failed, fallback) ==
  /\ conns' = got.conns
  /\ file' = got.file
  /\ connects' = got.connects
  /\ messages' = messages
  /\ turns' = turns
  /\ chat_shown' = TRUE
  /\ run' = [NoTurn EXCEPT !.schema_failed = schema_failed, !.fallback = fallback]

\* the run processes the submitted message, res being the result of the turn
RunTurn(got, key, db, res) ==
  /\ conns' = [got.conns EXCEPT ![key] = res.conn]
  /\ file' = [got.file EXCEPT ![db] = res.file]
  /\ connects' = got.connects
  /\ messages' = messages \o res.entries
  /\ turns' = turns + 1
  /\ chat_shown' = TRUE
  /\ run' = res.run

Unopened == [conns |-> conns, file |-> file, connects |-> connects]

\* main.py from the credential check on, got being the cached connection
main_checked(got, key, ck, db, submitted, prompt, llm, schema_failed) ==
  IF api_key_missing(key) THEN RunEnds(got, "warning")
  ELSE IF init_groq_llm_raises(key) THEN RunEnds(got, "error")
  ELSE IF ~submitted THEN RunIdles(got, schema_failed, schema_failed)
  ELSE RunTurn(got, ck, db,
               main_turn(got.conns[ck], got.file[db], prompt, llm, schema_failed))

\* main.py: the connection is made before the credential is looked at
main_script(typed, db, submitted, prompt, llm, schema_failed) ==
  main_checked(get_sqlite_database(db, TRUE), groq_api_key(typed),
               cache_key(db, TRUE), db, submitted, prompt, llm, schema_failed)

\* NewMain.py once the credential is there
NewMain_opened(got, key, ck, db, submitted, prompt, llm) ==
  IF init_groq_llm_raises(key) THEN RunEnds(got, "error")
  ELSE IF ~submitted THEN RunIdles(got, FALSE, FALSE)
  ELSE RunTurn(got, ck, db,
               NewMain_turn(got.conns[ck], got.file[db], prompt, llm))

\* NewMain.py: st.stop() ends the run before anything else is made
NewMain_checked(key, db, sample, submitted, prompt, llm) ==
  IF api_key_missing(key) THEN RunEnds(Unopened, "warning")
  ELSE NewMain_opened(get_sqlite_database(db, sample), key,
                      cache_key(db, sample), db, submitted, prompt, llm)

NewMain_script(typed, db, sample, submitted, prompt, llm) ==
  NewMain_checked(groq_api_key(typed), db, sample, submitted, prompt, llm)

\* NewMain2.py once the credential is there
NewMain2_opened(got, key, ck, db, submitted, prompt, llm, schema_failed) ==
  IF init_groq_llm_raises(key) THEN RunEnds(got, "error")
  ELSE IF ~submitted THEN RunIdles(got, FALSE, FALSE)
  ELSE RunTurn(got, ck, db,
               NewMain2_turn(got.conns[ck], got.file[db], prompt, llm,
                             schema_failed))

\* NewMain2.py: st.stop() ends the run before anything else is made
NewMain2_checked(key, db, sample, submitted, prompt, llm, schema_failed) ==
  IF api_key_missing(key) THEN RunEnds(Unopened, "warning")
  ELSE NewMain2_opened(get_sqlite_database(db, sample), key,
                       cache_key(db, sample), db, submitted, prompt, llm,
                       schema_failed)

NewMain2_script(typed, db, sample, submitted, prompt, llm, schema_failed) ==
  NewMain2_checked(groq_api_key(typed), db, sample, submitted, prompt, llm,
                   schema_failed)

RunScript(typed, db, sample, submitted, prompt, llm, schema_failed) ==
  CASE variant = "main" ->
         main_script(typed, db, submitted, prompt, llm, schema_failed)
    [] variant = "NewMain" ->
         NewMain_script(typed, db, sample, submitted, prompt, llm)
    [] variant = "NewMain2" ->
         NewMain2_script(typed, db, sample, submitted, prompt, llm, schema_failed)

(***************************************************************************)
(* Actions: what the user does; each one reruns the script.                *)
(***************************************************************************)
\* the page is loaded or the max-tokens slider is moved
Rerun ==
  /\ \E schema_failed \in BOOLEAN :
       RunScript(key_input, db_name, init_sample_data, FALSE, <<>>, LlmError,
                 schema_failed)
  /\ UNCHANGED <<variant, env_key, key_input, db_name, init_sample_data>>

\* the key is typed into (or cleared from) the sidebar; the input is only
\* there when the environment holds no key
SetApiKey ==
  /\ env_key = ""
  /\ \E typed \in ApiKeys \ {key_input}, schema_failed \in BOOLEAN :
       /\ key_input' = typed
       /\ RunScript(typed, db_name, init_sample_data, FALSE, <<>>, LlmError,
                    schema_failed)
  /\ UNCHANGED <<variant, env_key, db_name, init_sample_data>>

\* the checkbox of NewMain.py and NewMain2.py
ToggleSampleData ==
  /\ variant # "main"
  /\ init_sample_data' = ~init_sample_data
  /\ RunScript(key_input, db_name, ~init_sample_data, FALSE, <<>>, LlmError, FALSE)
  /\ UNCHANGED <<variant, env_key, key_input, db_name>>

\* a message is submitted in the chat input the last run showed
SubmitChat ==
  /\ chat_shown
  /\ turns < MaxTurns
  /\ \E prompt \in UserMessages, llm \in LlmOutcomes, schema_failed \in BOOLEAN :
       RunScript(key_input, db_name, init_sample_data, TRUE, prompt, llm,
                 schema_failed)
  /\ UNCHANGED <<variant, env_key, key_input, db_name, init_sample_data>>

Next ==
  \/ Rerun
  \/ SetApiKey
  \/ ToggleSampleData
  \/ SubmitChat

Spec == Init /\ [][Next]_vars

(***************************************************************************)
(* The affected-table detection of main.py, over every kind of statement   *)
(* it is applied to: sessions of main.py whose turns generate a statement  *)
(* that is not a read.                                                     *)
(***************************************************************************)
TableInit == Init /\ variant = "main"

\* a message is submitted and the model answers with a write
SubmitStatement ==
  /\ chat_shown
  /\ turns < MaxTurns
  /\ \E prompt \in UserMessages, llm \in WriteStatements, schema_failed \in BOOLEAN :
       RunScript(key_input, db_name, init_sample_data, TRUE, prompt, llm,
                 schema_failed)
  /\ UNCHANGED <<variant, env_key, key_input, db_name, init_sample_data>>

TableNext ==
  \/ Rerun
  \/ SetApiKey
  \/ SubmitStatement

TableSpec == TableInit /\ [][TableNext]_vars

(***************************************************************************)
(* The properties.  What a property says about a text is computed here     *)
(* from the Python string operations, apart from the definitions the       *)
(* scripts use, and tabulated.                                             *)
(***************************************************************************)
SqlTexts == {strip(s.text) : s \in Statements}
\* the statement contains delete, drop, truncate, update or insert
Mutating ==
  [q \in SqlTexts |-> \E w \in danger_words : contains(lower(q), w)]
\* the statement begins with select, pragma or explain
ReadOnly ==
  [q \in SqlTexts |-> \E k \in read_keywords : startswith(lower(lstrip(q)), k)]
\* finding the affected table or reading it back fails for the statement
DisplayFails ==
  [q \in SqlTexts |->
     LET a == affected_table(q) IN a.raised \/ a.table_name # T_employees]
\* the message contains a danger word; it begins with YES
Destructive ==
  [m \in UserMessages |-> \E w \in danger_words : contains(lower(m), w)]
BeginsWithYes ==
  [m \in UserMessages |-> startswith(upper(m), YES)]

\* the step is a chat turn
IsTurn == turns' = turns + 1
\* the connection of the session and the table it sees
session_key == cache_key(db_name, init_sample_data)
session_view == conn_view(conns[session_key], file[db_name])
last_entry == messages[Len(messages)]

\* C1: a generated statement that contains delete, drop, truncate, update or
\* insert is executed only in a turn whose user message begins with YES
C1_MutatingOnlyWhenConfirmed ==
  (run.turn /\ run.executed /\ Mutating[run.sql_query])
    => BeginsWithYes[run.user_query]

\* what C2 asks of one step of the session
C2_RefusalStep ==
  (variant = "NewMain2" /\ IsTurn
     /\ Destructive[run'.user_query] /\ ~BeginsWithYes[run'.user_query])
    => /\ run'.llm_calls = 0
       /\ ~run'.modification
       /\ ~run'.executed
       /\ run'.commits = 0 /\ run'.rollbacks = 0
       /\ file' = file /\ conns' = conns
       /\ messages' = messages \o
            <<user_entry(run'.user_query),
              [role |-> "assistant", content |-> RefusalMessage]>>
\* C2: in NewMain2.py a destructive message that does not begin with YES
\* makes no model call, does not reach execute_modification_query, commits
\* and rolls back nothing, leaves the database as it was and is answered by
\* exactly the refusal message
C2_Refusal == [][C2_RefusalStep]_vars
C2_Witness ==
  /\ variant = "NewMain2" /\ run.turn /\ run.user_query = MsgDelete
  /\ last_entry.content = RefusalMessage

\* what C3 asks of one step of the session
C3_RollbackStep ==
  (IsTurn /\ run'.exec_raised /\ (variant = "main" \/ run'.modification))
    => /\ run'.rollbacks >= 1
       /\ ~conns'[session_key].in_txn
       /\ conn_view(conns'[session_key], file'[db_name]) = session_view
\* C3: when executing the generated statement raises, in main.py or in
\* execute_modification_query, the connection is rolled back before the
\* turn ends: the table is as before the turn and nothing is left pending
C3_RollbackOnFailure == [][C3_RollbackStep]_vars

\* C4: a statement that begins with select, pragma or explain is never
\* followed by a commit in its turn, in main.py and in
\* execute_modification_query
C4_NoCommitOnRead ==
  (run.turn /\ run.executed /\ ReadOnly[run.sql_query]
     /\ (variant = "main" \/ run.modification))
    => run.commits = 0

\* what C5 asks of one step of the session
C5_LogStep ==
  /\ Len(messages') = 2 * turns'
  /\ Len(messages') >= Len(messages)
  /\ SubSeq(messages', 1, Len(messages)) = messages
  /\ \A i \in 1..Len(messages') :
       messages'[i].role = IF i % 2 = 1 THEN "user" ELSE "assistant"
  /\ IsTurn => messages'[Len(messages) + 1] = user_entry(run'.user_query)
\* C5: the conversation log is append-only and every completed turn adds
\* one user entry followed by one assistant entry: after n turns it holds
\* 2n entries, alternating, and the earlier entries are as they were
C5_AppendOnly == [][C5_LogStep]_vars
C5_Witness ==
  /\ turns = 2 /\ Len(messages) = 4
  /\ messages[2].content.fmt \in {"Error: {}", "Error: Error: {}",
                                  "Error executing query: Error: {}"}

\* C6: in main.py, once a statement that is not a read has been committed,
\* a failure to find or to read back the affected table is reported as a
\* warning: the commit stands, nothing is rolled back and the assistant
\* entry is the success entry
C6_DisplayFailureIsWarning ==
  (variant = "main" /\ run.turn /\ run.executed /\ ~run.exec_raised
     /\ ~ReadOnly[run.sql_query] /\ DisplayFails[run.sql_query])
    => /\ run.table_warning
       /\ run.commits = 1 /\ run.rollbacks = 0
       /\ ~conns[session_key].in_txn
       /\ last_entry =
            assistant_entry("Generated SQL: {} Query executed successfully.",
                            run.sql_query)
C6_Witness ==
  /\ variant = "main" /\ run.turn /\ run.executed /\ ~run.exec_raised
  /\ run.sql_query = strip(SqlUpdate) /\ DisplayFails[run.sql_query]
  /\ run.table_warning

\* C7: when the catalog query fails while the prompt of a turn is built, in
\* main.py or in execute_modification_query, the static schema description
\* is used and the turn goes on to the model call
C7_SchemaFallback ==
  (run.turn /\ run.schema_failed /\ (variant = "main" \/ run.modification))
    => (run.fallback /\ run.llm_calls = 1)

\* C8: in NewMain2.py the request placed in the prompt of a confirmed
\* destructive message is the message without its YES prefix and with all
\* that follows the prefix (white space after the prefix aside)
C8_PrefixRemoved ==
  (variant = "NewMain2" /\ run.turn /\ run.modification /\ run.prompt_built)
    => lstrip(run.request) = lstrip(slice_from(run.user_query, Len(YES)))

\* C9: at most one connection is ever opened per database path
C9_OneConnectionPerPath == \A p \in Paths : connects[p] <= 1

\* what C10 asks of one step of the session
C10_CredentialStep ==
  /\ (env_key = "" /\ key_input' = "")
       => /\ messages' = messages
          /\ ~run'.turn /\ run'.llm_calls = 0 /\ ~run'.executed
          /\ run'.outcome = "warning"
          /\ ~chat_shown'
  /\ (env_key # "" \/ key_input' # "")
       => (chat_shown' /\ run'.outcome = "ok")
\* C10: a run without a credential processes no turn: no model call, no
\* generated statement executed, the log as it was, and it ends with the
\* warning; a run with a credential shows the chat input
C10_NoCredentialNoTurn == [][C10_CredentialStep]_vars
C10_Witness ==
  /\ env_key = "" /\ key_input = "" /\ run.outcome = "warning"
  /\ turns >= 1 /\ ~chat_shown

\* the four fixed sample rows, ids 1 to 4
FourSampleRows == {<<i, "sample">> : i \in 1..4}
\* init_sample_db runs in the step: a connection to the path is created
Creates(p) == connects'[p] = connects[p] + 1

\* C11 as stated: whatever the employees table held, once init_sample_db
\* has run (in main.py, or in NewMain.py and NewMain2.py with the checkbox
\* ticked) the table holds exactly the four sample rows
C11_SeedingResets ==
  [][\A p \in Paths :
       (Creates(p) /\ (variant = "main" \/ init_sample_data'))
         => file'[p] = FourSampleRows]_vars
\* what the amended C11 asks of one step of the session
C11_SeedingStep ==
  \A p \in Paths :
    (Creates(p) /\ (\/ variant # "main" /\ init_sample_data'
                    \/ variant = "main" /\ file[p] = {}))
      => file'[p] = FourSampleRows
\* C11: whatever the employees table held, once init_sample_db has run with
\* seeding in effect (NewMain.py and NewMain2.py: include_sample_data is
\* true; main.py: the table was found empty) the table holds exactly the
\* four sample rows and no other row
C11_SeedingGivesFourRows == [][C11_SeedingStep]_vars
\* a turn deleted employee 1 and the table holds the four sample rows again:
\* the seeding ran on a table an earlier turn had modified
C11_Witness ==
  /\ variant = "NewMain2" /\ turns >= 1 /\ ~run.turn
  /\ last_entry = assistant_entry("Successfully executed: {}", strip(SqlDelete))
  /\ init_sample_data
  /\ \A p \in Paths : connects[p] = 2 /\ file[p] = FourSampleRows

TableTexts == {strip(s.text) : s \in Statements \cup TableStatements}
\* the first of "into ", "update ", "from " that occurs in q, <<>> if none
first_keyword(q) ==
  IF contains(q, K_into) THEN K_into
  ELSE IF contains(q, K_update) THEN K_update
  ELSE IF contains(q, K_from) THEN K_from
  ELSE <<>>
\* the text of q after the first occurrence of k
text_after(q, k) == slice_from(q, first_occurrence(q, k) + Len(k) - 1)
\* the text of q between the first occurrence of k and the next one
text_between(q, k) ==
  IF contains(text_after(q, k), k)
  THEN SubSeq(text_after(q, k), 1, first_occurrence(text_after(q, k), k) - 1)
  ELSE text_after(q, k)
\* the first token after the first occurrence of the keyword of highest
\* priority, employees when there is no keyword
TokenAfterKeyword ==
  [q \in TableTexts |->
     IF first_keyword(lower(q)) = <<>> THEN T_employees
     ELSE first_token(text_after(lower(q), first_keyword(lower(q))))]
\* the same with the token taken from the text before the keyword's next
\* occurrence; <<>> when that text holds no token
TokenBeforeNextKeyword ==
  [q \in TableTexts |->
     IF first_keyword(lower(q)) = <<>> THEN T_employees
     ELSE first_token(text_between(lower(q), first_keyword(lower(q))))]

\* C12 as stated: after a committed non-read statement of main.py the table
\* of the post-write view is, by keyword priority, the first token after
\* the first occurrence of "into ", else of "update ", else of "from ", else
\* employees, and one of these four applies to every statement
C12_TableByPriority ==
  (variant = "main" /\ run.turn /\ run.stmt_committed)
    => run.table_name = TokenAfterKeyword[run.sql_query]
\* C12: after a committed non-read statement of main.py the table of the
\* post-write view is chosen by keyword priority ("into ", then "update ",
\* then "from ", else employees) as the first token of the text between the
\* keyword's first occurrence and its next one; when that text holds no
\* token no table is chosen and the view is replaced by a warning
C12_TableByPriorityUpToNextKeyword ==
  (variant = "main" /\ run.turn /\ run.stmt_committed)
    => /\ run.table_name = TokenBeforeNextKeyword[run.sql_query]
       /\ (TokenBeforeNextKeyword[run.sql_query] = <<>> => run.table_warning)
\* "update " and "from " both occur, "from " first followed by another token
C12_Witness ==
  /\ variant = "main" /\ run.turn /\ run.stmt_committed
  /\ run.sql_query = strip(SqlUpdateFrom)
  /\ run.table_name = T_employees /\ ~run.table_warning
  /\ first_token(text_after(lower(run.sql_query), K_from)) # T_employees

\* what C13 asks of one step of a session of main.py
C13_PreservesStep ==
  \A p \in Paths :
    (variant = "main" /\ Creates(p))
      => /\ file[p] # {} => file'[p] = file[p]
         /\ file[p] = {} => file'[p] = FourSampleRows
\* C13: in main.py init_sample_db leaves an employees table that holds at
\* least one row as it is, whenever the connection is created, and inserts
\* the four sample rows only into an empty table
C13_NonEmptyTablePreserved == [][C13_PreservesStep]_vars
\* the connection of main.py has been created on a file whose table held
\* rows left by earlier turns (employee 1, 3 and 4 deleted, 7 inserted), no
\* turn has run since, and the table holds those rows
C13_Witness ==
  /\ variant = "main" /\ turns = 0
  /\ \A p \in Paths :
       /\ connects[p] = 1 /\ conns[<<p, TRUE>>].open
       /\ file[p] = {<<2, "sample">>, <<7, "new">>}

====
